---- MODULE Spec2Model ----
(***************************************************************************)
(* Model of src/main.py: the Video Downloader API.                         *)
(*                                                                         *)
(*   POST /info      get_video_info   (lines 42-85)                        *)
(*   POST /download  download_video   (lines 88-127)                       *)
(*   sanitize_filename                (lines 37-39)                        *)
(*                                                                         *)
(* Each handler is a coroutine with one suspension point, the awaited      *)
(* run_in_threadpool call.  A handler is therefore two steps: the code up  *)
(* to the await, and the code from the resumption of the await to the      *)
(* return or raise.  While a /download handler is suspended the extractor  *)
(* thread writes files into the request's temporary directory.             *)
(*                                                                         *)
(* What happens to the FileResponse and the BackgroundTasks object after   *)
(* download_video returns is the framework's part (Starlette): the         *)
(* response stats the file (a missing file raises RuntimeError before      *)
(* anything is sent), sends the headers, sends the body in chunks, and     *)
(* only then awaits the background tasks attached to the response.         *)
(***************************************************************************)
EXTENDS Integers, Sequences, FiniteSets, TLC

\* ---------------------------------------------------------------- bounds
NumRequests == 2      \* requests the server handles concurrently
ChunkCount == 2       \* body chunks a FileResponse sends
MaxFormats == 2       \* length of the extractor's format list
MaxLen == 3           \* length of the strings given to sanitize_filename

Requests == 1 .. NumRequests
DirNames == 1 .. (NumRequests + 1)   \* names tempfile.mkdtemp can draw

\* ------------------------------------------------- Python values
\* An optional value (dict.get without default): None or the value.
None == << >>
Some(x) == << x >>

\* ------------------------------------------------- sanitize_filename
\* Faulty variant: the class without its last character: r'[\\/*?:"<>]'
InvalidChars_without_bar == { "\\", "/", "*", "?", ":", "\"", "<", ">" }

\* The character class of the pattern r'[\\/*?:"<>|]' (line 39).
InvalidChars == { "\\", "/", "*", "?", ":", "\"", "<", ">", "|" }

\* re.sub(pattern, "", name): scan left to right, drop each match, keep
\* every other character.
RECURSIVE re_sub_class(_, _)
re_sub_class(class, name) ==
    IF name = << >> THEN << >>
    ELSE IF Head(name) \in class
         THEN re_sub_class(class, Tail(name))
         ELSE << Head(name) >> \o re_sub_class(class, Tail(name))

sanitize_filename(name) == re_sub_class(InvalidChars, name)

\* ------------------------------------------------- /info helpers
DefaultTitle ==
    << "v", "i", "d", "e", "o", "_", "s", "i", "n", "_",
       "t", "i", "t", "u", "l", "o" >>

\* Faulty variant: `or` in place of `and`
KeepFormat_or(f) == f.vcodec # Some("none") \/ f.acodec # Some("none")

\* line 67: f.get("vcodec") != "none" and f.get("acodec") != "none"
KeepFormat(f) == f.vcodec # Some("none") /\ f.acodec # Some("none")

\* line 68: f.get("format_note") or f.get("height").  Python's `or` yields
\* its left operand when that is truthy (a non-empty string), else the right.
NoteTruthy(f) == f.format_note # None /\ f.format_note[1] # ""

\* Faulty variant: the isinstance branch of lines 69-70 left out
QualityOf_no_suffix(f) ==
    IF NoteTruthy(f) THEN f.format_note[1]
    ELSE IF f.height # None THEN ToString(f.height[1])
    ELSE "None"

\* lines 68-70, 75: the label, the "p" suffix for an int, then str().
QualityOf(f) ==
    IF NoteTruthy(f) THEN f.format_note[1]
    ELSE IF f.height # None THEN ToString(f.height[1]) \o "p"
    ELSE "None"

\* lines 72-79: VideoFormat(format_id, quality, ext, filesize)
VideoFormat(f) ==
    [ format_id |-> f.format_id,
      quality   |-> QualityOf(f),
      ext       |-> f.ext,
      filesize  |-> f.filesize ]

\* lines 64-79: the loop over info.get("formats", []), order kept.
RECURSIVE BuildFormats(_)
BuildFormats(fs) ==
    IF fs = << >> THEN << >>
    ELSE IF KeepFormat(Head(fs))
         THEN << VideoFormat(Head(fs)) >> \o BuildFormats(Tail(fs))
         ELSE BuildFormats(Tail(fs))

\* line 65: info.get("formats", []): a missing key reads as the empty list.
FormatsOf(info) == IF info.formats = None THEN << >> ELSE info.formats[1]

\* Faulty variant: the check of line 81 left out
NoFormats_unchecked(video_formats) == FALSE

\* line 81: `if not video_formats`
NoFormats(video_formats) == video_formats = << >>

\* line 84: sanitize_filename(info.get("title", "video_sin_titulo"))
SanitizedTitle(info) ==
    sanitize_filename(IF info.title = None THEN DefaultTitle ELSE info.title[1])

\* ------------------------------------------------- /download helpers
\* line 114: sanitize_filename(os.path.basename(original_filename)); a path
\* is [dir, name] where name holds no separator, so basename is the name.
basename(path) == path.name
SanitizedBasename(path) == sanitize_filename(basename(path))

\* Faulty variant: a directory name chosen without looking at the disk
mkdtemp_any(existing) == DirNames

\* line 97: tempfile.mkdtemp() creates a directory under a name no existing
\* directory has; the set of names it may return.
mkdtemp(existing) == DirNames \ { e[1] : e \in existing }

\* shutil.rmtree(d): the directory and everything in it are gone.
rmtree_dirs(ds, d) == { e \in ds : e[1] # d }
rmtree_files(fl, d) == { p \in fl : p.dir # d }

\* ------------------------------------------------- extractor results
\* str(e) of the exceptions the extractor raises (subclasses of Exception).
ExceptionTexts == { "Unsupported URL", "Requested format is not available" }

\* The codec, note and height fields of one format record of the extractor.
\* The filter of line 67 reads the codecs only and the label of lines 68-70
\* the note and the height only: every codec pair with the scenario's label,
\* and every label with the scenario's codecs.
RecordShapes ==
    [ vcodec      : { None, Some("none"), Some("avc1") },
      acodec      : { None, Some("none"), Some("mp4a") },
      format_note : { None },
      height      : { Some(720) } ]
    \cup
    [ vcodec      : { Some("avc1") },
      acodec      : { Some("mp4a") },
      format_note : { None, Some(""), Some("hd") },
      height      : { None, Some(720) } ]

\* A format record; the extractor gives every record of a list its own
\* format_id, here the record's position.
FormatRecord(shape, i) ==
    [ format_id   |-> ToString(i),
      ext         |-> "mp4",
      filesize    |-> None,
      vcodec      |-> shape.vcodec,
      acodec      |-> shape.acodec,
      format_note |-> shape.format_note,
      height      |-> shape.height ]

FormatLists(shapes, n) ==
    UNION { { [ i \in 1 .. k |-> FormatRecord(sh[i], i) ] : sh \in [ 1 .. k -> shapes ] }
            : k \in 0 .. n }

\* The info dicts extract_info(url, download=False) returns: a title (or
\* none) and a format list (or none).
InfoDicts(shapes, n, titles) ==
    [ title   : titles,
      formats : { None } \cup { Some(fl) : fl \in FormatLists(shapes, n) } ]

MyVideo == << "M", "y", ":", "V", "i", "d", "e", "o" >>

\* Every info dict within the bounds.
AllInfos == InfoDicts(RecordShapes, MaxFormats, { None, Some(MyVideo) })

\* The info dicts of the whole-server specification: the format list of the
\* concrete scenarios (one video+audio record, or one record without video).
ServerShapes ==
    { [ vcodec |-> Some("avc1"), acodec |-> Some("mp4a"),
        format_note |-> None, height |-> Some(720) ],
      [ vcodec |-> Some("none"), acodec |-> Some("mp4a"),
        format_note |-> None, height |-> None ] }
ServerInfos == InfoDicts(ServerShapes, 1, { Some(MyVideo) })

\* File names the extractor writes into the temporary directory.  The first
\* is what prepare_filename computes from the output template (line 113);
\* post-processing may leave the download under another name.
PredictedName == << "M", "y", "?", ".", "m", "p", "4" >>
MergedName == << "M", "y", "?", ".", "m", "k", "v" >>
OutputNames == { PredictedName, MergedName }

\* Strings given to sanitize_filename: every invalid character and others.
Alphabet == { "\\", "/", "*", "?", ":", "\"", "<", ">", "|", "a", ".", " " }
Strings == UNION { [ 1 .. k -> Alphabet ] : k \in 0 .. MaxLen }

\* ------------------------------------------------- responses
NoInfo == [ title |-> None, formats |-> None ]
NoPath == [ dir |-> 0, name |-> << >> ]
NoResponse ==
    [ status |-> 0, kind |-> "none", detail |-> "",
      title |-> << >>, formats |-> << >>, filename |-> << >> ]

HTTPException(status_code, detail) ==
    [ NoResponse EXCEPT !.status = status_code, !.kind = "HTTPException",
                        !.detail = detail ]

\* An exception no handler catches: the server answers 500.
Unhandled ==
    [ NoResponse EXCEPT !.status = 500, !.kind = "unhandled",
                        !.detail = "Internal Server Error" ]

\* Faulty variant: the except clause of line 61 does not match the exception
InfoErrorResponse_uncaught(e) == Unhandled

\* lines 61-62
InfoErrorResponse(e) ==
    HTTPException(400, "Error de yt-dlp al obtener info: " \o e)

\* lines 64-85
InfoResponse(i) ==
    LET video_formats == BuildFormats(FormatsOf(i))
    IN  IF NoFormats(video_formats)
        THEN HTTPException(404,
                 "No se encontraron formatos de video compatibles (video+audio).")
        ELSE [ NoResponse EXCEPT !.status = 200, !.kind = "VideoInfoResponse",
                                 !.title = SanitizedTitle(i),
                                 !.formats = video_formats ]

\* line 118
DownloadErrorResponse(e) ==
    HTTPException(500, "Error de yt-dlp al descargar: " \o e)

\* lines 123-127
FileResponse(path) ==
    [ NoResponse EXCEPT !.status = 200, !.kind = "FileResponse",
                        !.filename = SanitizedBasename(path) ]

\* ------------------------------------------------- state
VARIABLES
    endpoint,            \* per request: "none", "/info" or "/download"
    pc,                  \* per request: where its handler / response is
    outcome,             \* per request: "pending", "ok" or the text of the
                         \*   exception the extractor call raised
    info,                \* per /info request: the extractor's info dict
    response,            \* per request: the HTTP response produced
    temp_dir,            \* per /download request: the name mkdtemp returned
    original_filename,   \* per /download request: prepare_filename's path
    background_tasks,    \* per /download request: directories to rmtree
    sent,                \* per /download request: body chunks sent
    dirs,                \* disk: existing temporary directories, each
                         \*   << name, request that created it >>
    files,               \* disk: existing files, [dir, name]
    written,             \* per /download request: names its extractor wrote
    rmtree_calls,        \* per request: shutil.rmtree calls on its temp_dir
    sanitize_call        \* last call of sanitize_filename: site, arg, ret

vars == << endpoint, pc, outcome, info, response, temp_dir, original_filename,
           background_tasks, sent, dirs, files, written, rmtree_calls,
           sanitize_call >>

request_vars == << endpoint, pc, outcome, info, response, temp_dir,
                   original_filename, background_tasks, sent, dirs, files,
                   written, rmtree_calls >>

download_vars == << temp_dir, original_filename, background_tasks, sent, dirs,
                    files, written, rmtree_calls >>

Init ==
    /\ endpoint = [ r \in Requests |-> "none" ]
    /\ pc = [ r \in Requests |-> "idle" ]
    /\ outcome = [ r \in Requests |-> "pending" ]
    /\ info = [ r \in Requests |-> NoInfo ]
    /\ response = [ r \in Requests |-> NoResponse ]
    /\ temp_dir = [ r \in Requests |-> 0 ]
    /\ original_filename = [ r \in Requests |-> NoPath ]
    /\ background_tasks = [ r \in Requests |-> << >> ]
    /\ sent = [ r \in Requests |-> 0 ]
    /\ dirs = { }
    /\ files = { }
    /\ written = [ r \in Requests |-> { } ]
    /\ rmtree_calls = [ r \in Requests |-> 0 ]
    /\ sanitize_call = [ site |-> "none", arg |-> << >>, ret |-> << >> ]

\* ------------------------------------------------- POST /info
\* lines 43-60: up to the awaited extract_info(url, download=False).
get_video_info_start(r) ==
    /\ pc[r] = "idle"
    /\ endpoint' = [ endpoint EXCEPT ![r] = "/info" ]
    /\ pc' = [ pc EXCEPT ![r] = "extracting" ]
    /\ UNCHANGED << outcome, info, response, download_vars, sanitize_call >>

\* lines 60, 64-85: the extractor returns an info dict, one of infos.
get_video_info_return(r, infos) ==
    /\ pc[r] = "extracting"
    /\ endpoint[r] = "/info"
    /\ \E i \in infos :
          /\ info' = [ info EXCEPT ![r] = i ]
          /\ response' = [ response EXCEPT ![r] = InfoResponse(i) ]
    /\ outcome' = [ outcome EXCEPT ![r] = "ok" ]
    /\ pc' = [ pc EXCEPT ![r] = "done" ]
    /\ UNCHANGED << endpoint, download_vars, sanitize_call >>

\* lines 60-62: the extractor raises an exception; e is its text.
get_video_info_except(r) ==
    /\ pc[r] = "extracting"
    /\ endpoint[r] = "/info"
    /\ \E e \in ExceptionTexts :
          /\ outcome' = [ outcome EXCEPT ![r] = e ]
          /\ response' = [ response EXCEPT ![r] = InfoErrorResponse(e) ]
    /\ pc' = [ pc EXCEPT ![r] = "done" ]
    /\ UNCHANGED << endpoint, info, download_vars, sanitize_call >>

\* ------------------------------------------------- POST /download
\* lines 89-112: mkdtemp, the options, up to the awaited
\* extract_info(url, download=True).
download_video_start(r) ==
    /\ pc[r] = "idle"
    /\ \E d \in mkdtemp(dirs) :
          /\ temp_dir' = [ temp_dir EXCEPT ![r] = d ]
          /\ dirs' = dirs \cup { << d, r >> }
    /\ endpoint' = [ endpoint EXCEPT ![r] = "/download" ]
    /\ pc' = [ pc EXCEPT ![r] = "extracting" ]
    /\ UNCHANGED << outcome, info, response, original_filename,
                    background_tasks, sent, files, written, rmtree_calls,
                    sanitize_call >>

\* line 112, in the worker thread: the extractor writes a file under the
\* output template's directory (line 102).
extractor_writes(r) ==
    /\ pc[r] = "extracting"
    /\ endpoint[r] = "/download"
    /\ \E n \in OutputNames \ written[r] :
          /\ files' = files \cup { [ dir |-> temp_dir[r], name |-> n ] }
          /\ written' = [ written EXCEPT ![r] = @ \cup { n } ]
    /\ UNCHANGED << endpoint, pc, outcome, info, response, temp_dir,
                    original_filename, background_tasks, sent, dirs,
                    rmtree_calls, sanitize_call >>

\* Faulty variant: shutil.rmtree(temp_dir) called at line 121 instead of scheduled
download_video_return_rmtree_now(r) ==
    /\ pc[r] = "extracting"
    /\ endpoint[r] = "/download"
    /\ outcome' = [ outcome EXCEPT ![r] = "ok" ]
    /\ original_filename' =
          [ original_filename EXCEPT
              ![r] = [ dir |-> temp_dir[r], name |-> PredictedName ] ]
    /\ dirs' = rmtree_dirs(dirs, temp_dir[r])
    /\ files' = rmtree_files(files, temp_dir[r])
    /\ rmtree_calls' = [ rmtree_calls EXCEPT ![r] = @ + 1 ]
    /\ pc' = [ pc EXCEPT ![r] = "returned" ]
    /\ UNCHANGED << endpoint, info, response, temp_dir, background_tasks, sent,
                    written, sanitize_call >>

\* lines 112-114, 120-127: the extractor returns, prepare_filename computes
\* the path, the cleanup is added to the background tasks and the
\* FileResponse is returned to the framework.
download_video_return(r) ==
    /\ pc[r] = "extracting"
    /\ endpoint[r] = "/download"
    /\ outcome' = [ outcome EXCEPT ![r] = "ok" ]
    /\ original_filename' =
          [ original_filename EXCEPT
              ![r] = [ dir |-> temp_dir[r], name |-> PredictedName ] ]
    /\ background_tasks' =
          [ background_tasks EXCEPT ![r] = Append(@, temp_dir[r]) ]
    /\ pc' = [ pc EXCEPT ![r] = "returned" ]
    /\ UNCHANGED << endpoint, info, response, temp_dir, sent, dirs, files,
                    written, rmtree_calls, sanitize_call >>

\* Faulty variant: the except clause without line 117
download_video_except_no_rmtree(r) ==
    /\ pc[r] = "extracting"
    /\ endpoint[r] = "/download"
    /\ \E e \in ExceptionTexts :
          /\ outcome' = [ outcome EXCEPT ![r] = e ]
          /\ response' = [ response EXCEPT ![r] = DownloadErrorResponse(e) ]
    /\ pc' = [ pc EXCEPT ![r] = "done" ]
    /\ UNCHANGED << endpoint, info, download_vars, sanitize_call >>

\* lines 112-118: extract_info or prepare_filename raises an exception (e is
\* its text); rmtree, then HTTPException(500).
download_video_except(r) ==
    /\ pc[r] = "extracting"
    /\ endpoint[r] = "/download"
    /\ \E e \in ExceptionTexts :
          /\ outcome' = [ outcome EXCEPT ![r] = e ]
          /\ response' = [ response EXCEPT ![r] = DownloadErrorResponse(e) ]
    /\ dirs' = rmtree_dirs(dirs, temp_dir[r])
    /\ files' = rmtree_files(files, temp_dir[r])
    /\ rmtree_calls' = [ rmtree_calls EXCEPT ![r] = @ + 1 ]
    /\ pc' = [ pc EXCEPT ![r] = "done" ]
    /\ UNCHANGED << endpoint, info, temp_dir, original_filename,
                    background_tasks, sent, written, sanitize_call >>

\* ------------------------------------------------- the returned response
\* FileResponse(path=original_filename, ...) of lines 123-127, sent by the
\* framework: the file is there, status and headers go out.
file_response_start(r) ==
    /\ pc[r] = "returned"
    /\ original_filename[r] \in files
    /\ response' = [ response EXCEPT ![r] = FileResponse(original_filename[r]) ]
    /\ pc' = [ pc EXCEPT ![r] = "sending" ]
    /\ UNCHANGED << endpoint, outcome, info, download_vars, sanitize_call >>

\* The file of line 124 is not on disk: sending the response raises, nothing
\* catches it, and the background tasks of the response are never awaited.
file_response_missing(r) ==
    /\ pc[r] = "returned"
    /\ original_filename[r] \notin files
    /\ response' = [ response EXCEPT ![r] = Unhandled ]
    /\ pc' = [ pc EXCEPT ![r] = "done" ]
    /\ UNCHANGED << endpoint, outcome, info, download_vars, sanitize_call >>

\* One chunk of the body goes out.
file_response_chunk(r) ==
    /\ pc[r] = "sending"
    /\ sent[r] < ChunkCount
    /\ sent' = [ sent EXCEPT ![r] = @ + 1 ]
    /\ UNCHANGED << endpoint, pc, outcome, info, response, temp_dir,
                    original_filename, background_tasks, dirs, files, written,
                    rmtree_calls, sanitize_call >>

\* line 121: the tasks added with add_task(shutil.rmtree, temp_dir) run once
\* the whole body has been sent.
run_background_tasks(r) ==
    /\ pc[r] = "sending"
    /\ sent[r] = ChunkCount
    /\ LET ds == { background_tasks[r][k] : k \in DOMAIN background_tasks[r] }
       IN  /\ dirs' = { e \in dirs : e[1] \notin ds }
           /\ files' = { p \in files : p.dir \notin ds }
    /\ rmtree_calls' = [ rmtree_calls EXCEPT ![r] = @ + Len(background_tasks[r]) ]
    /\ background_tasks' = [ background_tasks EXCEPT ![r] = << >> ]
    /\ pc' = [ pc EXCEPT ![r] = "done" ]
    /\ UNCHANGED << endpoint, outcome, info, response, temp_dir,
                    original_filename, sent, written, sanitize_call >>

\* ------------------------------------------------- the server
Next ==
    \E r \in Requests :
        \/ get_video_info_start(r)
        \/ get_video_info_return(r, ServerInfos)
        \/ get_video_info_except(r)
        \/ download_video_start(r)
        \/ extractor_writes(r)
        \/ download_video_return(r)
        \/ download_video_except(r)
        \/ file_response_start(r)
        \/ file_response_missing(r)
        \/ file_response_chunk(r)
        \/ run_background_tasks(r)

Spec == Init /\ [][Next]_vars

\* ------------------------------------------------- /info over every info dict
NextInfo ==
    \/ get_video_info_start(1)
    \/ get_video_info_return(1, AllInfos)
    \/ get_video_info_except(1)

SpecInfo == Init /\ [][NextInfo]_vars

\* ------------------------------------------------- sanitize_filename alone
\* A call of sanitize_filename(name), lines 37-39, for any string.
call_sanitize_filename ==
    /\ sanitize_call.site = "none"
    /\ \E name \in Strings :
          sanitize_call' =
              [ site |-> "call", arg |-> name, ret |-> sanitize_filename(name) ]
    /\ UNCHANGED request_vars

\* The call of line 84 for an info dict with any title t, or none.
call_for_title ==
    /\ sanitize_call.site = "none"
    /\ \E t \in { None } \cup { Some(s) : s \in Strings } :
          sanitize_call' =
              [ site |-> "title",
                arg  |-> IF t = None THEN DefaultTitle ELSE t[1],
                ret  |-> SanitizedTitle([ title |-> t, formats |-> None ]) ]
    /\ UNCHANGED request_vars

\* The call of line 114 for the path prepare_filename computed.
call_for_basename ==
    /\ sanitize_call.site = "none"
    /\ \E name \in Strings :
          sanitize_call' =
              [ site |-> "basename", arg |-> name,
                ret  |-> SanitizedBasename([ dir |-> 1, name |-> name ]) ]
    /\ UNCHANGED request_vars

NextSanitize ==
    \/ call_sanitize_filename
    \/ call_for_title
    \/ call_for_basename

SpecSanitize == Init /\ [][NextSanitize]_vars

\* ------------------------------------------------- properties
IsDownload(r) == endpoint[r] = "/download"
IsInfo(r) == endpoint[r] = "/info"

\* The directory request r created is on disk.
DirExists(r) == << temp_dir[r], r >> \in dirs

\* Request r has created its directory and has not completed.
InFlight(r) == IsDownload(r) /\ pc[r] \in { "extracting", "returned", "sending" }

\* The record of request r's format list that carries the given format_id.
SourceRecords(r, id) ==
    { FormatsOf(info[r])[j] : j \in { k \in DOMAIN FormatsOf(info[r]) :
                                        FormatsOf(info[r])[k].format_id = id } }

\* A codec is present: the record does not report it as absent ("none").
CodecPresent(c) == c # Some("none")
IsVideoAudio(f) == CodecPresent(f.vcodec) /\ CodecPresent(f.acodec)

\* C1: every completed /download request has had its temporary directory
\* deleted exactly once: the directory is gone and rmtree ran once on it.
C1_DeletedExactlyOnce ==
    \A r \in Requests :
        (IsDownload(r) /\ pc[r] = "done")
            => (~ DirExists(r) /\ rmtree_calls[r] = 1)

\* C2: when the extractor succeeded and the file of the response was not on
\* disk (the response failed unhandled), the deferred cleanup has run and the
\* temporary directory is removed.
C2_CleanupWhenFileMissing ==
    \A r \in Requests :
        (IsDownload(r) /\ outcome[r] = "ok" /\ response[r].kind = "unhandled")
            => (background_tasks[r] = << >> /\ ~ DirExists(r))

\* C3: whenever a /download request has answered with the HTTPException of
\* the failure path, the status is 500 and its temporary directory is already
\* removed, by the one synchronous rmtree, with nothing left scheduled.
C3_FailureRemovesDirFirst ==
    \A r \in Requests :
        (IsDownload(r) /\ response[r].kind = "HTTPException")
            => /\ response[r].status = 500
               /\ ~ DirExists(r)
               /\ rmtree_calls[r] = 1
               /\ background_tasks[r] = << >>

C3_Witness ==
    \E r \in Requests :
        /\ IsDownload(r)
        /\ response[r].kind = "HTTPException"
        /\ written[r] # { }
        /\ ~ DirExists(r)

\* C4: on the success path, from the return of the extractor call until the
\* whole body has been sent, the temporary directory exists and has not been
\* deleted, and while the body is being sent the streamed file exists.
C4_DirKeptUntilSent ==
    \A r \in Requests :
        (IsDownload(r) /\ pc[r] \in { "returned", "sending" })
            => /\ DirExists(r)
               /\ rmtree_calls[r] = 0
               /\ (pc[r] = "sending" => original_filename[r] \in files)

C4_Witness ==
    \E r \in Requests :
        /\ IsDownload(r)
        /\ response[r].kind = "FileResponse"
        /\ pc[r] = "done"
        /\ sent[r] = ChunkCount
        /\ rmtree_calls[r] = 1
        /\ ~ DirExists(r)

\* C5: every entry of the formats of a 200 response of /info comes from a
\* record of the extractor's list with both codecs present, and no record
\* with an absent video or audio codec has an entry.
C5_OnlyVideoAudioFormats ==
    \A r \in Requests :
        (IsInfo(r) /\ response[r].status = 200)
            => /\ \A k \in DOMAIN response[r].formats :
                     \E f \in SourceRecords(r, response[r].formats[k].format_id) :
                         IsVideoAudio(f)
               /\ \A j \in DOMAIN FormatsOf(info[r]) :
                     ~ IsVideoAudio(FormatsOf(info[r])[j])
                         => \A k \in DOMAIN response[r].formats :
                               response[r].formats[k].format_id
                                   # FormatsOf(info[r])[j].format_id

C5_Witness ==
    \E r \in Requests :
        /\ IsInfo(r)
        /\ response[r].status = 200
        /\ Len(response[r].formats) >= 1
        /\ Len(response[r].formats) < Len(FormatsOf(info[r]))

\* C6: when the extractor succeeded on /info and no record of its list has
\* both codecs present (the list may be empty or missing) the response is
\* 404; a 200 response never has an empty formats list.
C6_NoFormatsIs404 ==
    \A r \in Requests :
        (IsInfo(r) /\ outcome[r] = "ok")
            => /\ (\A j \in DOMAIN FormatsOf(info[r]) :
                       ~ IsVideoAudio(FormatsOf(info[r])[j]))
                     => (response[r].status = 404
                         /\ response[r].kind = "HTTPException")
               /\ response[r].status = 200 => response[r].formats # << >>

C6_Witness ==
    \E r \in Requests :
        /\ IsInfo(r)
        /\ outcome[r] = "ok"
        /\ Len(FormatsOf(info[r])) >= 1
        /\ response[r].status = 404

\* C7: a request whose extractor call raised has answered with the designed
\* HTTPException, 400 on /info and 500 on /download, whose detail carries the
\* exception's text, and with no title, formats or file in the response.
C7_ExtractorErrorsConverted ==
    \A r \in Requests :
        outcome[r] \in ExceptionTexts
            => /\ response[r].kind = "HTTPException"
               /\ response[r].status = (IF IsInfo(r) THEN 400 ELSE 500)
               /\ response[r].detail \in
                     { "Error de yt-dlp al obtener info: " \o outcome[r],
                       "Error de yt-dlp al descargar: " \o outcome[r] }
               /\ response[r].formats = << >>
               /\ response[r].title = << >>
               /\ response[r].filename = << >>

C7_Witness ==
    \E r, q \in Requests :
        /\ IsInfo(r) /\ outcome[r] \in ExceptionTexts /\ response[r].status = 400
        /\ IsDownload(q) /\ outcome[q] \in ExceptionTexts /\ response[q].status = 500

\* C8: two /download requests in flight never have the same temporary
\* directory, and the directory and the files of a request in flight are on
\* disk whatever the other requests have cleaned up.
C8_DirectoriesDistinct ==
    /\ \A r, q \in Requests :
          (r # q /\ InFlight(r) /\ InFlight(q)) => temp_dir[r] # temp_dir[q]
    /\ \A r \in Requests :
          InFlight(r)
              => /\ DirExists(r)
                 /\ \A n \in written[r] :
                       [ dir |-> temp_dir[r], name |-> n ] \in files

C8_Witness ==
    \E r, q \in Requests :
        /\ r # q
        /\ IsDownload(r) /\ pc[r] = "done" /\ rmtree_calls[r] = 1
        /\ response[r].kind = "FileResponse"
        /\ pc[q] = "sending" /\ sent[q] >= 1 /\ written[q] # { }

\* The characters the sanitizer is to remove: \ / * ? : " < > |
RemovedChars == { "\\", "/", "*", "?", ":", "\"", "<", ">", "|" }
Kept(c) == c \notin RemovedChars

\* C9: sanitize_filename returns its argument without the occurrences of the
\* characters \ / * ? : " < > | and with every other character in its
\* original order, at a plain call, for the title of /info and for the
\* filename of /download; the result holds none of those characters.
C9_SanitizeRemovesExactly ==
    sanitize_call.site # "none"
        => /\ sanitize_call.ret = SelectSeq(sanitize_call.arg, Kept)
           /\ \A k \in DOMAIN sanitize_call.ret : Kept(sanitize_call.ret[k])

C9_Witness ==
    /\ sanitize_call.site = "basename"
    /\ Len(sanitize_call.arg) = MaxLen
    /\ Len(sanitize_call.ret) = 2
    /\ sanitize_call.arg[1] = "."
    /\ sanitize_call.arg[2] = "|"
    /\ sanitize_call.ret = << ".", "a" >>

\* The quality the claim gives a kept record, when the claim fixes it.
QualityHolds(f, quality, note_present) ==
    IF note_present THEN quality = f.format_note[1]
    ELSE IF f.height # None THEN quality = ToString(f.height[1]) \o "p"
    ELSE TRUE

\* C10 as stated: the quality of every returned format is the record's note
\* if the note is present, otherwise the height suffixed with "p", otherwise
\* some stringified fallback.
C10_QualityAsStated ==
    \A r \in Requests :
        (IsInfo(r) /\ response[r].status = 200)
            => \A k \in DOMAIN response[r].formats :
                  \A f \in SourceRecords(r, response[r].formats[k].format_id) :
                      QualityHolds(f, response[r].formats[k].quality,
                                   f.format_note # None)

\* C10 amended: the quality is the record's note if the note is present and
\* not the empty string, otherwise the height suffixed with "p", otherwise
\* the string "None".
C10_QualityAmended ==
    \A r \in Requests :
        (IsInfo(r) /\ response[r].status = 200)
            => \A k \in DOMAIN response[r].formats :
                  \A f \in SourceRecords(r, response[r].formats[k].format_id) :
                      /\ QualityHolds(f, response[r].formats[k].quality,
                                      f.format_note # None /\ f.format_note # Some(""))
                      /\ (f.format_note \in { None, Some("") } /\ f.height = None)
                            => response[r].formats[k].quality = "None"

C10_Witness ==
    \E r \in Requests :
        /\ IsInfo(r)
        /\ response[r].status = 200
        /\ \E k \in DOMAIN response[r].formats :
              /\ response[r].formats[k].quality = "720p"
              /\ \E f \in SourceRecords(r, response[r].formats[k].format_id) :
                    f.format_note = Some("") /\ f.height = Some(720)

====
